---- MODULE Spec2Model ----
(***************************************************************************)
(* Model of tools/mods-dev-server/development-server.js: the module-level *)
(* state (declaredExternalResourcesInManifest, allowedOrigins), the        *)
(* startup path (startServer, readExternalResourcesFromManifest), the      *)
(* manifest watch callback (readExternalResources) and the header          *)
(* middleware (cacheRedirect).                                             *)
(***************************************************************************)
EXTENDS Integers, Sequences, FiniteSets, TLC

(***************************************************************************)
(* Bounds of the model.                                                    *)
(***************************************************************************)
\* how many times startServer may reach devServer.start in one process
MaxStarts == 2
\* how many watch callbacks may be waiting to run
MaxPending == 2

(***************************************************************************)
(* JavaScript values, as far as the code distinguishes them.               *)
(* t is the type, n the number (or 0/1 for a boolean), a the elements of   *)
(* an array or the characters of a string.                                 *)
(***************************************************************************)
Undefined == [t |-> "undefined", n |-> 0, a |-> <<>>]
JNull == [t |-> "null", n |-> 0, a |-> <<>>]
JNum(k) == [t |-> "number", n |-> k, a |-> <<>>]
JBool(b) == [t |-> "boolean", n |-> IF b THEN 1 ELSE 0, a |-> <<>>]
JStr(chars) == [t |-> "string", n |-> 0, a |-> chars]
JArr(elems) == [t |-> "array", n |-> 0, a |-> elems]
JObj == [t |-> "object", n |-> 0, a |-> <<>>]

\* JavaScript ToBoolean, as used by the || of line 97
Truthy(v) ==
    CASE v.t = "undefined" -> FALSE
      [] v.t = "null" -> FALSE
      [] v.t = "boolean" -> v.n = 1
      [] v.t = "number" -> v.n # 0
      [] v.t = "string" -> v.a # <<>>
      [] OTHER -> TRUE

\* the spread ...v inside an array literal (line 137): the elements of an
\* array, the characters of a string, a TypeError for anything not iterable
Spread(v) ==
    IF v.t \in {"array", "string"}
    THEN [ok |-> TRUE, items |-> v.a]
    ELSE [ok |-> FALSE, items |-> <<>>]

\* Array.prototype.join on an array of strings
RECURSIVE Join(_, _)
Join(s, sep) ==
    IF s = <<>> THEN ""
    ELSE IF Len(s) = 1 THEN s[1]
    ELSE s[1] \o sep \o Join(Tail(s), sep)

Range(s) == {s[i] : i \in 1..Len(s)}

(***************************************************************************)
(* The file system the server is started on.                               *)
(***************************************************************************)
manifestName == "mod-manifest.json"

\* the root directories startServer is called with: one that does not
\* exist, one without a manifest, and one that holds a manifest
MissingRoot == "./missing/"
EmptyRoot == "./empty/"
ModRoot == "./test/test-files/"
Roots == {MissingRoot, EmptyRoot, ModRoot}

\* the test of line 70 left out
existsSync_always(root) == TRUE
\* fs.existsSync(rootDirectoryAbsolutePath)
existsSync(root) == root # MissingRoot
\* fs.readdirSync(rootDirectoryAbsolutePath)
readdirSync(root) == IF root = ModRoot THEN {manifestName, "index.html"} ELSE {"index.html"}

\* The text of a manifest file: parses says whether JSON.parse accepts it,
\* top is the type of the parsed value, er the value of its
\* externalResources property (Undefined when it has none).
Text(parses, top, er) == [parses |-> parses, top |-> top, er |-> er]
Contents ==
    { Text(FALSE, "undefined", Undefined),                       \* a file cut short
      Text(TRUE, "null", Undefined),                             \* null
      Text(TRUE, "object", Undefined),                           \* {"name": "m"}
      Text(TRUE, "object", JArr(<<"https://example.com">>)),
      Text(TRUE, "object", JArr(<<"https://a.test", "https://cdn.test">>)),
      Text(TRUE, "object", JNum(5)),                             \* {"externalResources": 5}
      Text(TRUE, "object", JNull),                               \* {"externalResources": null}
      Text(TRUE, "object", JStr(<<"a", "b">>)) }                 \* {"externalResources": "ab"}

(***************************************************************************)
(* Requests.                                                               *)
(***************************************************************************)
Methods == {"GET", "POST"}
\* req.headers.origin: absent, or one of these strings
NoOrigin == [present |-> FALSE, val |-> ""]
Origin(s) == [present |-> TRUE, val |-> s]
OriginValues == {"null", "", "https://a.test", "https://b.test"}
OriginHeaders == {NoOrigin} \cup {Origin(s) : s \in OriginValues}
NoRequest == [method |-> "", origin |-> NoOrigin]

NoConfig == [root |-> ""]
\* no argument: the last operation was not startServer
NoPartialConfig == [k \in {} |-> 0]
\* failedParse while no failed parse is in effect
NoFailedParse == [active |-> FALSE, value |-> Undefined]

VARIABLES
    declaredExternalResourcesInManifest, \* line 28
    allowedOrigins,      \* line 29: a Set, kept in insertion order
    manifestContent,     \* the text of ModRoot/mod-manifest.json
    watchers,            \* fs.watch registrations on the manifest (line 90)
    pendingEvents,       \* change events whose callback has not run yet
    servers,             \* servers handed to devServer.start (line 76)
    bare,                \* those of them whose middleware lacks cacheRedirect
    op,                  \* the operation that ran last
    partialConfig,       \* the argument of the last startServer
    config,              \* the configuration of the last startServer
    failedParse,         \* the value a failed parse of a change event kept
    asStarted,           \* the manifest is still the text a startup parsed
    startLog,            \* what the last startServer did, in order
    req,                 \* the request cacheRedirect handled last
    res                  \* what cacheRedirect did to res and next, in order

vars == <<declaredExternalResourcesInManifest, allowedOrigins, manifestContent,
          watchers, pendingEvents, servers, bare, op, partialConfig, config,
          failedParse,
          asStarted, startLog, req, res>>

(***************************************************************************)
(* readExternalResources (lines 92-99): the value of                       *)
(* declaredExternalResourcesInManifest after one read of the manifest.     *)
(***************************************************************************)
\* JSON.parse(content) throws (line 96)
ParseThrows(content) == ~content.parses
\* json.externalResources (line 97): a TypeError on null, the property of
\* an object, undefined on anything else
PropertyThrows(content) == content.top = "null"
externalResources(content) == IF content.top = "object" THEN content.er ELSE Undefined

readExternalResources(content, previous) ==
    IF ParseThrows(content) \/ PropertyThrows(content)
    THEN previous                                   \* catch (err) {}
    ELSE IF Truthy(externalResources(content))
         THEN externalResources(content)
         ELSE JArr(<<>>)

(***************************************************************************)
(* cacheRedirect (lines 111-145).                                          *)
(***************************************************************************)
SetHeader(name, value) == [call |-> "setHeader", name |-> name, value |-> value]
CallNext == [call |-> "next", name |-> "", value |-> ""]
ThrowTypeError == [call |-> "throw", name |-> "TypeError", value |-> ""]

isCorsRequest(r) == r.origin.present
\* the comparison made against the value null instead of the string "null"
requestFromOutsideSandbox_nullValue(r) == r.origin.present
requestFromOutsideSandbox(r) == ~(r.origin.present /\ r.origin.val = "null")

\* the set replaced by the new element
SetAdd_replace(set, x) == << x >>
\* Set.prototype.add
SetAdd(set, x) == IF x \in Range(set) THEN set ELSE Append(set, x)

allowedOriginsAfter(r, allowed) ==
    IF isCorsRequest(r) /\ requestFromOutsideSandbox(r)
    THEN SetAdd(allowed, r.origin.val)
    ELSE allowed

CSPPrefix == "sandbox allow-scripts; default-src 'self' 'unsafe-eval' 'unsafe-inline' blob: data: "

\* the request's origin echoed instead of the wildcard
corsHeaders_echoOrigin(r) ==
    IF isCorsRequest(r) /\ requestFromOutsideSandbox(r)
    THEN << SetHeader("Access-Control-Allow-Headers", "Origin, X-Requested-With, Content-Type, Accept"),
            SetHeader("Access-Control-Allow-Origin", r.origin.val) >>
    ELSE << >>

corsHeaders(r) ==
    IF isCorsRequest(r) /\ requestFromOutsideSandbox(r)
    THEN << SetHeader("Access-Control-Allow-Headers", "Origin, X-Requested-With, Content-Type, Accept"),
            SetHeader("Access-Control-Allow-Origin", "*") >>
    ELSE << >>

cspHeaders(allowed, declared) ==
    IF Spread(declared).ok
    THEN << SetHeader("content-security-policy",
                      CSPPrefix \o Join(allowed \o Spread(declared).items, " ")),
            SetHeader("x-content-security-policy", "sandbox allow-scripts"),
            CallNext >>
    ELSE << ThrowTypeError >>

\* Cache-Control set after the method test instead of before it
cacheRedirectCalls_cacheAfterMethodTest(r, allowed, declared) ==
    corsHeaders(r)
    \o (IF r.method # "GET"
        THEN << CallNext >>
        ELSE << SetHeader("Cache-Control", "no-store") >> \o cspHeaders(allowed, declared))

\* the method test of line 127 left out
cacheRedirectCalls_anyMethod(r, allowed, declared) ==
    corsHeaders(r)
    \o << SetHeader("Cache-Control", "no-store") >>
    \o cspHeaders(allowed, declared)

\* everything the middleware does to res and next, in order; allowed is
\* allowedOrigins after line 117
cacheRedirectCalls(r, allowed, declared) ==
    corsHeaders(r)
    \o << SetHeader("Cache-Control", "no-store") >>
    \o (IF r.method # "GET" THEN << CallNext >> ELSE cspHeaders(allowed, declared))

cacheRedirect(r) ==
    /\ servers - bare > 0
    /\ allowedOrigins' = allowedOriginsAfter(r, allowedOrigins)
    /\ res' = cacheRedirectCalls(r, allowedOrigins', declaredExternalResourcesInManifest)
    /\ req' = r
    /\ op' = "cacheRedirect"
    /\ partialConfig' = NoPartialConfig
    /\ config' = NoConfig
    /\ startLog' = << >>
    /\ UNCHANGED <<declaredExternalResourcesInManifest, manifestContent,
                   watchers, pendingEvents, servers, bare, failedParse, asStarted>>

\* a request to a server whose middleware option does not hold
\* cacheRedirect goes to the next handler without it (lines 40, 63-66, 76);
\* no code of this module sees the request
staticRequest ==
    /\ bare > 0
    /\ req' = NoRequest
    /\ res' = << >>
    /\ op' = "staticRequest"
    /\ partialConfig' = NoPartialConfig
    /\ config' = NoConfig
    /\ startLog' = << >>
    /\ UNCHANGED <<declaredExternalResourcesInManifest, allowedOrigins, manifestContent,
                   watchers, pendingEvents, servers, bare, failedParse, asStarted>>

(***************************************************************************)
(* startServer (lines 62-77) with readExternalResourcesFromManifest        *)
(* (lines 83-103).                                                         *)
(***************************************************************************)
hasManifest(root) == manifestName \in readdirSync(root)

\* the middleware left out of the defaults
defaultConfig_noMiddleware ==
    [ port |-> 8090,
      noCssInject |-> TRUE,
      cors |-> FALSE,
      open |-> "/" \o manifestName,
      root |-> "./test/test-files/",
      wait |-> 250,
      middleware |-> << >> ]

\* defaultConfig (lines 32-41)
defaultConfig ==
    [ port |-> 8090,
      noCssInject |-> TRUE,
      cors |-> FALSE,
      open |-> "/" \o manifestName,
      root |-> "./test/test-files/",
      wait |-> 250,
      middleware |-> << "cacheRedirect" >> ]

\* the options a caller sets, and the value a caller gives each
Options == {"port", "root", "cors", "open", "wait", "middleware"}
CallerValue(k, root) ==
    CASE k = "port" -> 8080
      [] k = "root" -> root
      [] k = "cors" -> TRUE
      [] k = "open" -> "/index.html"
      [] k = "wait" -> 0
      [] k = "middleware" -> << >>
\* the sets of options the callers of the model supply: none, each of the
\* two the startup depends on, the other four, and all six
SuppliedSets ==
    { {}, {"root"}, {"middleware"}, {"port", "cors", "open", "wait"}, Options }
\* the argument of startServer: an object with the options of supplied
PartialConfig(supplied, root) == [k \in supplied |-> CallerValue(k, root)]

\* the defaults spread after the caller's options
ObjectSpread_defaultsLast(a, b) ==
    [k \in DOMAIN a \cup DOMAIN b |-> IF k \in DOMAIN a THEN a[k] ELSE b[k]]
\* { ...a, ...b } (lines 63-66): the properties of a, then those of b over them
ObjectSpread(a, b) ==
    [k \in DOMAIN a \cup DOMAIN b |-> IF k \in DOMAIN b THEN b[k] ELSE a[k]]

startServerSteps(root) ==
    IF ~existsSync(root)
    THEN << "existsSync", "throw" >>
    ELSE IF hasManifest(root)
         THEN << "existsSync", "readdirSync", "readExternalResources", "fs.watch", "devServer.start" >>
         ELSE << "existsSync", "readdirSync", "console.warn", "devServer.start" >>

startServerWithRoot(partial, root) ==
    /\ existsSync(root) => servers < MaxStarts
    /\ startLog' = startServerSteps(root)
    /\ declaredExternalResourcesInManifest' =
           IF existsSync(root) /\ hasManifest(root)
           THEN readExternalResources(manifestContent, declaredExternalResourcesInManifest)
           ELSE declaredExternalResourcesInManifest
    /\ watchers' = IF existsSync(root) /\ hasManifest(root) THEN watchers + 1 ELSE watchers
    /\ servers' = IF existsSync(root) THEN servers + 1 ELSE servers
    /\ bare' = IF existsSync(root)
                  /\ "cacheRedirect" \notin Range(ObjectSpread(defaultConfig, partial).middleware)
               THEN bare + 1
               ELSE bare
    /\ op' = "startServer"
    /\ partialConfig' = partial
    /\ config' = ObjectSpread(defaultConfig, partial)
    /\ failedParse' =
           IF existsSync(root) /\ hasManifest(root) /\ ~ParseThrows(manifestContent)
           THEN NoFailedParse
           ELSE failedParse
    /\ asStarted' =
           IF existsSync(root) /\ hasManifest(root)
           THEN ~ParseThrows(manifestContent)
           ELSE asStarted
    /\ req' = NoRequest
    /\ res' = << >>
    /\ UNCHANGED <<allowedOrigins, manifestContent, pendingEvents>>

startServer(partial) ==
    startServerWithRoot(partial, ObjectSpread(defaultConfig, partial).root)

(***************************************************************************)
(* The manifest file is rewritten; every registered watch gets an event.   *)
(***************************************************************************)
writeManifest(content) ==
    /\ pendingEvents + watchers <= MaxPending
    /\ manifestContent' = content
    /\ pendingEvents' = pendingEvents + watchers
    /\ op' = "writeManifest"
    /\ partialConfig' = NoPartialConfig
    /\ config' = NoConfig
    /\ asStarted' = FALSE
    /\ startLog' = << >>
    /\ req' = NoRequest
    /\ res' = << >>
    /\ UNCHANGED <<declaredExternalResourcesInManifest, allowedOrigins, watchers,
                   servers, bare, failedParse>>

\* the callback registered at line 90 runs for one event
manifestChanged ==
    /\ pendingEvents > 0
    /\ pendingEvents' = pendingEvents - 1
    /\ declaredExternalResourcesInManifest' =
           readExternalResources(manifestContent, declaredExternalResourcesInManifest)
    /\ op' = "manifestChanged"
    /\ partialConfig' = NoPartialConfig
    /\ config' = NoConfig
    /\ failedParse' =
           IF ParseThrows(manifestContent)
           THEN [active |-> TRUE, value |-> declaredExternalResourcesInManifest]
           ELSE NoFailedParse
    /\ asStarted' = asStarted
    /\ startLog' = << >>
    /\ req' = NoRequest
    /\ res' = << >>
    /\ UNCHANGED <<allowedOrigins, manifestContent, watchers, servers, bare>>

Init ==
    /\ declaredExternalResourcesInManifest = JArr(<<>>)
    /\ allowedOrigins = << >>
    /\ manifestContent \in Contents
    /\ watchers = 0
    /\ pendingEvents = 0
    /\ servers = 0
    /\ bare = 0
    /\ op = "load"
    /\ partialConfig = NoPartialConfig
    /\ config = NoConfig
    /\ failedParse = NoFailedParse
    /\ asStarted = FALSE
    /\ startLog = << >>
    /\ req = NoRequest
    /\ res = << >>

Next ==
    \/ \E supplied \in SuppliedSets :
         \E root \in (IF "root" \in supplied THEN Roots ELSE {ModRoot}) :
           startServer(PartialConfig(supplied, root))
    \/ \E m \in Methods, o \in OriginHeaders : cacheRedirect([method |-> m, origin |-> o])
    \/ staticRequest
    \/ \E content \in Contents : writeManifest(content)
    \/ manifestChanged

Spec == Init /\ [][Next]_vars

(***************************************************************************)
(* Reading the calls cacheRedirect made.                                   *)
(***************************************************************************)
\* the middleware called res.setHeader(name, ...)
HeaderIsSet(calls, name) ==
    \E i \in 1..Len(calls) : calls[i].call = "setHeader" /\ calls[i].name = name
\* the values the middleware gave the header
HeaderValues(calls, name) ==
    {calls[i].value : i \in {j \in 1..Len(calls) : calls[j].call = "setHeader" /\ calls[j].name = name}}
\* how many times the middleware called next()
NextCalls(calls) == Cardinality({i \in 1..Len(calls) : calls[i].call = "next"})
Threw(calls) == \E i \in 1..Len(calls) : calls[i].call = "throw"

\* the step handled a request (or stuttered after one)
Handled == op' = "cacheRedirect"

(***************************************************************************)
(* C1: a request whose Origin header is the string "null", whatever its    *)
(* method and the state it arrives in, leaves allowedOrigins as it was and *)
(* gets no Access-Control-Allow-Origin header from the middleware.         *)
(***************************************************************************)
C1_NullOriginNotAllowed ==
    [][(Handled /\ req'.origin = Origin("null"))
         => /\ allowedOrigins' = allowedOrigins
            /\ ~HeaderIsSet(res', "Access-Control-Allow-Origin")]_vars

\* a GET and a POST from the sandbox arrive after other origins were allowed
C1_Witness ==
    /\ op = "cacheRedirect"
    /\ req.origin = Origin("null")
    /\ Len(allowedOrigins) = 2
    /\ req.method = "POST"

(***************************************************************************)
(* C2: a request with a non-empty Origin header other than "null", GET or  *)
(* not, has its origin in allowedOrigins afterwards and gets               *)
(* Access-Control-Allow-Origin: * and Access-Control-Allow-Headers:        *)
(* Origin, X-Requested-With, Content-Type, Accept.                         *)
(***************************************************************************)
C2_OutsideOriginAllowed ==
    (op = "cacheRedirect" /\ req.origin.present /\ req.origin.val \notin {"", "null"})
      => /\ req.origin.val \in Range(allowedOrigins)
         /\ HeaderValues(res, "Access-Control-Allow-Origin") = {"*"}
         /\ HeaderValues(res, "Access-Control-Allow-Headers")
              = {"Origin, X-Requested-With, Content-Type, Accept"}

\* a non-GET request from a second outside origin
C2_Witness ==
    /\ op = "cacheRedirect"
    /\ req = [method |-> "POST", origin |-> Origin("https://b.test")]
    /\ allowedOrigins = <<"https://a.test", "https://b.test">>


(***************************************************************************)
(* C3: on every GET, in any state, the content-security-policy header is   *)
(* exactly the fixed prefix followed by the space-joined elements of       *)
(* allowedOrigins (insertion order, this request's origin included) and    *)
(* then the entries of declaredExternalResourcesInManifest in manifest     *)
(* order, duplicates kept.                                                 *)
(***************************************************************************)
C3_CspExact ==
    (op = "cacheRedirect" /\ req.method = "GET")
      => HeaderValues(res, "content-security-policy")
           = {CSPPrefix \o Join(allowedOrigins \o declaredExternalResourcesInManifest.a, " ")}

(***************************************************************************)
(* C4: after a change event whose text fails to parse, the declared        *)
(* resources are what they were before it, and until a later read parses   *)
(* every GET's content-security-policy contains every entry of that value. *)
(***************************************************************************)
\* the resource lists a manifest of the model can declare
ResourceLists == {c.er.a : c \in Contents}
\* the header is the prefix followed by the allowed origins and a resource
\* list, and e is one of them
CspContains(calls, e) ==
    \E v \in HeaderValues(calls, "content-security-policy"), l \in ResourceLists :
        /\ v = CSPPrefix \o Join(allowedOrigins \o l, " ")
        /\ e \in Range(allowedOrigins \o l)

C4_FailedParseKeepsLastGood ==
    failedParse.active
      => /\ declaredExternalResourcesInManifest = failedParse.value
         /\ (op = "cacheRedirect" /\ req.method = "GET")
              => /\ HeaderIsSet(res, "content-security-policy")
                 /\ \A e \in Range(failedParse.value.a) : CspContains(res, e)

(***************************************************************************)
(* C5: after every read of a manifest that parses (at startup or on a      *)
(* change event) the declared resources are the externalResources field    *)
(* when it is an array and the empty sequence when it is absent or not an  *)
(* array; nothing of an earlier manifest survives.                         *)
(***************************************************************************)
ReadRan ==
    \/ op = "manifestChanged"
    \/ op = "startServer" /\ "readExternalResources" \in Range(startLog)

C5_ReadReplacesWholesale ==
    (ReadRan /\ manifestContent.parses)
      => declaredExternalResourcesInManifest
           = IF manifestContent.top = "object" /\ manifestContent.er.t = "array"
             THEN manifestContent.er
             ELSE JArr(<<>>)

(***************************************************************************)
(* C6: the middleware never rejects a request: in every reachable state,   *)
(* for every method and Origin header, it raises no error and calls the    *)
(* next handler exactly once.                                              *)
(***************************************************************************)
C6_NeverRejects ==
    op = "cacheRedirect" => (~Threw(res) /\ NextCalls(res) = 1)

(***************************************************************************)
(* C7: on a non-GET request the middleware sets neither                    *)
(* content-security-policy nor x-content-security-policy and calls next    *)
(* right after setting Cache-Control; the origin is still added to         *)
(* allowedOrigins and the CORS headers are still set when the request      *)
(* comes from outside the sandbox, and only then.                          *)
(***************************************************************************)
C7_NonGetSkipsCsp ==
    [][(Handled /\ req'.method # "GET")
         => /\ ~HeaderIsSet(res', "content-security-policy")
            /\ ~HeaderIsSet(res', "x-content-security-policy")
            /\ Len(res') >= 2
            /\ res'[Len(res') - 1] = SetHeader("Cache-Control", "no-store")
            /\ res'[Len(res')] = CallNext
            /\ NextCalls(res') = 1
            /\ (req'.origin.present /\ req'.origin.val \notin {"", "null"})
                 => /\ req'.origin.val \in Range(allowedOrigins')
                    /\ HeaderValues(res', "Access-Control-Allow-Origin") = {"*"}
                    /\ HeaderValues(res', "Access-Control-Allow-Headers")
                         = {"Origin, X-Requested-With, Content-Type, Accept"}
            /\ (~req'.origin.present \/ req'.origin.val = "null")
                 => /\ allowedOrigins' = allowedOrigins
                    /\ ~HeaderIsSet(res', "Access-Control-Allow-Origin")
                    /\ ~HeaderIsSet(res', "Access-Control-Allow-Headers")]_vars

\* a POST from a new outside origin, with resources declared
C7_Witness ==
    /\ op = "cacheRedirect"
    /\ req = [method |-> "POST", origin |-> Origin("https://a.test")]
    /\ allowedOrigins = <<"https://b.test", "https://a.test">>
    /\ declaredExternalResourcesInManifest = JArr(<<"https://example.com">>)
    /\ Len(res) = 4

(***************************************************************************)
(* C8: when the root holds a manifest that parses at startup, the read     *)
(* comes before devServer.start, and every GET served while the manifest   *)
(* is unchanged has a content-security-policy containing every entry of    *)
(* that manifest's externalResources.                                      *)
(***************************************************************************)
Position(log, step) == CHOOSE i \in 1..Len(log) : log[i] = step

C8_StartupManifestInCsp ==
    /\ (op = "startServer" /\ "readExternalResources" \in Range(startLog))
         => /\ "devServer.start" \in Range(startLog)
            /\ Position(startLog, "readExternalResources") < Position(startLog, "devServer.start")
    /\ (asStarted /\ op = "cacheRedirect" /\ req.method = "GET")
         => /\ HeaderIsSet(res, "content-security-policy")
            /\ \A e \in Range(externalResources(manifestContent).a) : CspContains(res, e)

(***************************************************************************)
(* C9: startServer on a root directory that does not exist throws before   *)
(* devServer.start, before any manifest read and before any watch is       *)
(* registered, and leaves declaredExternalResourcesInManifest and          *)
(* allowedOrigins as they were.                                            *)
(***************************************************************************)
C9_MissingRootAborts ==
    [][(op' = "startServer" /\ config'.root = MissingRoot)
         => /\ startLog'[Len(startLog')] = "throw"
            /\ Range(startLog') \cap {"devServer.start", "readExternalResources", "fs.watch"} = {}
            /\ servers' = servers
            /\ watchers' = watchers
            /\ declaredExternalResourcesInManifest' = declaredExternalResourcesInManifest
            /\ allowedOrigins' = allowedOrigins]_vars

\* a failed startup in a process that already serves and has state
C9_Witness ==
    /\ op = "startServer"
    /\ config.root = MissingRoot
    /\ servers = 1
    /\ allowedOrigins # << >>
    /\ declaredExternalResourcesInManifest = JArr(<<"https://example.com">>)

(***************************************************************************)
(* C10: after any startServer on a root that exists but holds no           *)
(* mod-manifest.json, the declared resources are the empty sequence and    *)
(* the startup registered no watch, also when an earlier startup loaded a  *)
(* manifest.  Stated for the lists an array-valued manifest leaves, so     *)
(* that the run that refutes it does not go through a non-array value.     *)
(***************************************************************************)
C10_NoManifestLeavesEmpty ==
    (op = "startServer" /\ config.root = EmptyRoot)
      => /\ declaredExternalResourcesInManifest.t = "array"
              => declaredExternalResourcesInManifest = JArr(<<>>)
         /\ "fs.watch" \notin Range(startLog)

(***************************************************************************)
(* C11: for every argument of startServer, each of the options port, root, *)
(* cors, open, wait and middleware of the configuration handed to          *)
(* devServer.start is the caller's value when the caller supplied it and   *)
(* the default (8090, "./test/test-files/", false, "/mod-manifest.json",   *)
(* 250, [cacheRedirect]) otherwise.                                        *)
(***************************************************************************)
Started == op = "startServer" /\ "devServer.start" \in Range(startLog)

ClaimedDefault(k) ==
    CASE k = "port" -> 8090
      [] k = "root" -> "./test/test-files/"
      [] k = "cors" -> FALSE
      [] k = "open" -> "/mod-manifest.json"
      [] k = "wait" -> 250
      [] k = "middleware" -> << "cacheRedirect" >>

C11_CallerValuesWin ==
    Started
      => \A k \in Options :
            config[k] = IF k \in DOMAIN partialConfig
                        THEN partialConfig[k]
                        ELSE ClaimedDefault(k)

\* a caller that sets four options and leaves root and middleware out
C11_Witness ==
    /\ Started
    /\ DOMAIN partialConfig = {"port", "cors", "open", "wait"}
    /\ config.port = 8080
    /\ config.root = ModRoot

(***************************************************************************)
(* C12: in the configuration of every server started through startServer   *)
(* the middleware option is exactly [cacheRedirect], so every request to a *)
(* started server passes through it.                                       *)
(***************************************************************************)
C12_MiddlewareAlwaysInstalled ==
    /\ Started => config.middleware = << "cacheRedirect" >>
    /\ op # "staticRequest"

\* C12 as amended: when the caller supplies no middleware option, the
\* started server's middleware is exactly [cacheRedirect] and its requests
\* pass through it; a middleware option of the caller replaces it.
C12_MiddlewareUnlessOverridden ==
    [][(op' = "startServer" /\ "devServer.start" \in Range(startLog'))
         => IF "middleware" \in DOMAIN partialConfig'
            THEN config'.middleware = partialConfig'.middleware
            ELSE /\ config'.middleware = << "cacheRedirect" >>
                 /\ bare' = bare]_vars

\* a server with the default middleware started after one without it
C12_Witness ==
    /\ Started
    /\ "middleware" \notin DOMAIN partialConfig
    /\ servers = 2
    /\ bare = 1

(***************************************************************************)
(* C13: on every request the middleware handles, whatever its method and   *)
(* Origin header, it sets Cache-Control: no-store, and does so before it   *)
(* calls the next handler.                                                 *)
(***************************************************************************)
C13_NoStoreBeforeNext ==
    op = "cacheRedirect"
      => /\ HeaderValues(res, "Cache-Control") = {"no-store"}
         /\ \A i \in 1..Len(res) :
               res[i].call = "next"
                 => \E j \in 1..(i - 1) : res[j] = SetHeader("Cache-Control", "no-store")

\* a POST without an Origin header: Cache-Control, then next
C13_Witness ==
    /\ op = "cacheRedirect"
    /\ req = [method |-> "POST", origin |-> NoOrigin]
    /\ Len(res) = 2
    /\ NextCalls(res) = 1

(***************************************************************************)
(* C14: allowedOrigins only grows: every step keeps every member, only a   *)
(* request handled by the middleware changes it (startups, manifest reads  *)
(* and failed parses leave it alone), and requests leave                   *)
(* declaredExternalResourcesInManifest alone.                              *)
(***************************************************************************)
C14_AllowedOriginsOnlyGrow ==
    [][/\ Range(allowedOrigins) \subseteq Range(allowedOrigins')
       /\ allowedOrigins' # allowedOrigins => op' = "cacheRedirect"
       /\ op' \in {"cacheRedirect", "staticRequest"}
            => declaredExternalResourcesInManifest' = declaredExternalResourcesInManifest]_vars

\* three origins were allowed, then a change event replaced the resources
C14_Witness ==
    /\ op = "manifestChanged"
    /\ Len(allowedOrigins) = 3
    /\ declaredExternalResourcesInManifest = JArr(<<"https://example.com">>)

(***************************************************************************)
(* C15: every element of allowedOrigins is a non-empty string other than   *)
(* "null" that was the Origin header of an earlier request; a request      *)
(* with no Origin header or an empty one leaves allowedOrigins as it was   *)
(* and gets no Access-Control-Allow-Origin header.                         *)
(***************************************************************************)
C15_OnlyRealOriginsAllowed ==
    [][/\ \A x \in Range(allowedOrigins') : x \notin {"", "null"}
       /\ \A x \in Range(allowedOrigins') \ Range(allowedOrigins) :
             Handled /\ req'.origin = Origin(x)
       /\ (Handled /\ (~req'.origin.present \/ req'.origin.val = ""))
            => /\ allowedOrigins' = allowedOrigins
               /\ ~HeaderIsSet(res', "Access-Control-Allow-Origin")]_vars

====
